---- MODULE Spec2Model ----
(***************************************************************************)
(* Volume automation of rust-loop-drop's recording_to_als scripts.         *)
(*                                                                         *)
(*   index.js               the resolver: one pass over the event log that *)
(*                          builds the tempo map and each track's volume   *)
(*                          keyframes (two packaged variants, with and     *)
(*                          without clock drift correction)                *)
(*   apply-audio-levels.js  the applicator: reader -> Chunker -> transform *)
(*                          -> writer over 16-bit LE PCM, with getVolume a *)
(*                          binary search plus linear interpolation        *)
(*                                                                         *)
(* JavaScript numbers are modelled as exact rationals (no rounding error). *)
(***************************************************************************)
EXTENDS Integers, Sequences, FiniteSets, TLC

VARIABLES
    \* ---- getVolume applied on its own (SpecVolume)
    vEvents,        \* the keyframe array handed to getVolume
    vTime,          \* the query time
    vResult,        \* <<what getVolume returned>> (<<>> before the call)
    \* ---- one sample through readFormat / writeFormat (SpecSample)
    sBuf,           \* a two-byte buffer holding one sample
    sGain,          \* the gain it is multiplied by
    sOut,           \* <<the buffer after writeFormat>> (<<>> before the call)
    \* ---- the applicator, apply-audio-levels.js (SpecApply)
    format,         \* the format the reader parsed from the WAVE header
    levels,         \* the keyframes read from <input>.levels
    input,          \* the PCM bytes after the header
    apc,            \* "start", "piping", "finished" or "crashed"
    readPos,        \* bytes the reader has emitted so far
    chunkerBuf,     \* bytes the Chunker holds back (less than one chunk)
    chunkerEnded,   \* the Chunker has seen the end of the input
    chunkQueue,     \* chunks the Chunker has emitted, not yet transformed
    processed,      \* the transform's count of bytes done
    writer,         \* the chunks pushed to the writer, in order
    writerFormat,   \* <<the format the writer was made with>> (<<>> before)
    outputFile,     \* "absent", "open" or "closed"
    thrown,         \* the message of the uncaught error, or "none"
    \* ---- the resolver, index.js (Spec)
    variant,        \* "corrected" (lines 1-167) or "uncorrected" (169-324)
    rpc,            \* "parsing" the log, "closed" after the closing entry,
                    \* "crashed" when the export died
    lineNo,         \* lines of the log handled so far
    lastTime,       \* the raw time of the last parsed record (-1: none yet)
    line,           \* what the last line held: <<type, track index>>
    chronological,  \* the parsed records' times never went down so far
    tempo,          \* <<the nominal tempo>>, <<>> while it is null
    ticks,          \* the times of the tick records
    duration,       \* the time of the last tick
    length,         \* the beat of the last tick
    tempoEvents,    \* the tempo map
    timeAtLastTempoChange,
    beatAtLastTempoChange,
    tickDurations,
    volumeEvents,   \* track index -> the track's keyframes
    \* ---- the export step of index.js (SpecExport)
    exportPos,      \* tracks the export loop has done
    fileName,       \* track index -> the track's fileName, as its parts
    trackDuration,  \* track index -> <<the track's duration>> (<<>> before)
    audioFiles,     \* the audio files written into the project directory
    levelsFiles     \* name of a .levels file -> the keyframes written to it

volumeVars == <<vEvents, vTime, vResult>>
sampleVars == <<sBuf, sGain, sOut>>
applyVars == <<format, levels, input, apc, readPos, chunkerBuf, chunkerEnded,
               chunkQueue, processed, writer, writerFormat, outputFile, thrown>>
resolverVars == <<variant, rpc, lineNo, lastTime, line, chronological, tempo, ticks,
                  duration, length, tempoEvents, timeAtLastTempoChange,
                  beatAtLastTempoChange, tickDurations, volumeEvents,
                  exportPos, fileName, trackDuration, audioFiles, levelsFiles>>
exportVars == <<exportPos, fileName, trackDuration, audioFiles, levelsFiles>>
notApplyVars == <<volumeVars, sampleVars, resolverVars>>
notResolverVars == <<volumeVars, sampleVars, applyVars>>
vars == <<volumeVars, sampleVars, applyVars, resolverVars>>

(***************************************************************************)
(* Exact rationals [n, d] with d > 0.                                      *)
(***************************************************************************)
RECURSIVE GCD(_, _)
GCD(a, b) == IF b = 0 THEN a ELSE GCD(b, a % b)

Abs(x) == IF x < 0 THEN -x ELSE x

Rat(n, d) ==
    LET g == GCD(Abs(n), Abs(d))
        s == IF d < 0 THEN -1 ELSE 1
    IN [n |-> s * (n \div g), d |-> s * (d \div g)]

RInt(k) == [n |-> k, d |-> 1]
RAdd(a, b) == Rat(a.n * b.d + b.n * a.d, a.d * b.d)
RSub(a, b) == Rat(a.n * b.d - b.n * a.d, a.d * b.d)
RMul(a, b) == Rat(a.n * b.n, a.d * b.d)
RDiv(a, b) == Rat(a.n * b.d, a.d * b.n)
\* the sign of a - b, without building the difference
RCmp(a, b) ==
    LET l == a.n * b.d
        r == b.n * a.d
    IN IF l < r THEN -1 ELSE IF l > r THEN 1 ELSE 0
REq(a, b) == RCmp(a, b) = 0

(***************************************************************************)
(* apply-audio-levels.js: the pure functions.                              *)
(* Buffers are sequences of bytes 0..255; a JavaScript offset o is the     *)
(* sequence index o + 1.  Keyframes are records [time, value] of           *)
(* rationals.                                                              *)
(***************************************************************************)
UnsupportedFormat == "Unsupported format"

\* the test both readFormat and writeFormat make before touching the buffer
Supported(fmt) == fmt.bitDepth = 16 /\ fmt.endianness = "LE"

\* Number -> integer as a typed-array store does it: toward zero
TruncNum(q) == IF q.n >= 0 THEN q.n \div q.d ELSE -((-q.n) \div q.d)

\* clip without its lower bound
clip_noMin(value, min, max) ==
    IF RCmp(value, RInt(max)) > 0 THEN RInt(max) ELSE value

clip(value, min, max) ==
    IF RCmp(value, RInt(max)) > 0 THEN RInt(max)
    ELSE IF RCmp(value, RInt(min)) < 0 THEN RInt(min)
    ELSE value

\* buf.readInt16LE(offset): two's complement, low byte first
readInt16LE(buf, offset) ==
    LET val == buf[offset + 1] + buf[offset + 2] * 256
    IN IF val >= 32768 THEN val - 65536 ELSE val

\* buf.writeInt16LE(value, offset): buf[offset] = value, buf[offset + 1] =
\* value >>> 8, each store keeping the low eight bits of the integer part
writeInt16LE(buf, value, offset) ==
    LET iv == TruncNum(value)
    IN [buf EXCEPT ![offset + 1] = iv % 256,
                   ![offset + 2] = (iv \div 256) % 256]

\* both return [error, ...]: error is "none" or the message thrown
readFormat(buf, offset, fmt) ==
    IF Supported(fmt)
    THEN [error |-> "none", value |-> readInt16LE(buf, offset)]
    ELSE [error |-> UnsupportedFormat, value |-> 0]

writeFormat(buf, value, offset, fmt) ==
    IF Supported(fmt)
    THEN [error |-> "none",
          buf |-> writeInt16LE(buf, clip(value, -32768, 32767), offset)]
    ELSE [error |-> UnsupportedFormat, buf |-> buf]

\* the binary-search package: the index of a match, else ~low = -low - 1
\* where low is the insertion point; indices are JavaScript's (from 0)
RECURSIVE bsLoop(_, _, _, _)
bsLoop(haystack, needle, low, high) ==
    IF low > high THEN -low - 1
    ELSE LET mid == low + ((high - low) \div 2)
             cmp == RCmp(haystack[mid + 1].time, needle)
         IN IF cmp < 0 THEN bsLoop(haystack, needle, mid + 1, high)
            ELSE IF cmp > 0 THEN bsLoop(haystack, needle, low, mid - 1)
            ELSE mid

bs(haystack, needle) == bsLoop(haystack, needle, 0, Len(haystack) - 1)

\* events[j] is undefined (falsy) outside the array
Defined(events, j) == j >= 0 /\ j < Len(events)

\* the interpolation with after.value taken for the range
Interpolate_noBase(time, before, after) ==
    LET range == after.value
        pos == RDiv(RSub(time, before.time), RSub(after.time, before.time))
    IN RAdd(before.value, RMul(range, pos))

Interpolate(time, before, after) ==
    LET range == RSub(after.value, before.value)
        pos == RDiv(RSub(time, before.time), RSub(after.time, before.time))
    IN RAdd(before.value, RMul(range, pos))

\* silence instead of unit gain when there is no keyframe
EmptyVolume_mute == RInt(0)

\* the gain when neither neighbour exists

EmptyVolume == RInt(1)

getVolume(time, events) ==
    LET index == bs(events, time)
    IN IF index >= 0 THEN events[index + 1].value
       ELSE LET b == (index * (-1)) - 2
                a == (index * (-1)) - 1
            IN IF Defined(events, b) /\ Defined(events, a)
               THEN Interpolate(time, events[b + 1], events[a + 1])
               ELSE IF Defined(events, b) THEN events[b + 1].value
               ELSE IF Defined(events, a) THEN events[a + 1].value
               ELSE EmptyVolume

\* the body of the transform's inner loop for one channel scalar:
\* writeFormat(chunk, readFormat(chunk, o) * volume, o)
transformSample(chunk, offset, volume, fmt) ==
    LET value == readFormat(chunk, offset, fmt)
    IN IF value.error # "none" THEN [error |-> value.error, buf |-> chunk]
       ELSE writeFormat(chunk, RMul(RInt(value.value), volume), offset, fmt)

(***************************************************************************)
(* getVolume on its own: every sorted keyframe array within the bounds,    *)
(* queried at every half second around its keyframes.                      *)
(***************************************************************************)
MaxKeyframes == 3
MaxKeyTime == 2
MaxGainStep == 3

\* keyframes at whole seconds with gains in steps of one half
KeyframeChoices ==
    {[time |-> RInt(t), value |-> Rat(g, 2)] :
        t \in 0..MaxKeyTime, g \in 0..MaxGainStep}

SortedByTime(events) ==
    \A i \in 1..(Len(events) - 1) :
        RCmp(events[i].time, events[i + 1].time) <= 0

SortedKeyframeArrays ==
    UNION {{events \in [1..n -> KeyframeChoices] : SortedByTime(events)} :
              n \in 0..MaxKeyframes}

QueryTimes == {Rat(k, 2) : k \in (-1)..(2 * MaxKeyTime + 1)}

VolumeInit ==
    /\ vEvents \in SortedKeyframeArrays
    /\ vTime = RInt(0)
    /\ vResult = <<>>

VolumeIdle ==
    /\ vEvents = <<>>
    /\ vTime = RInt(0)
    /\ vResult = <<>>

CallGetVolume ==
    \E t \in QueryTimes :
        /\ vTime' = t
        /\ vResult' = <<getVolume(t, vEvents)>>
        /\ UNCHANGED vEvents
        /\ UNCHANGED <<sampleVars, applyVars, resolverVars>>

(***************************************************************************)
(* One sample through the transform's inner loop: every sample of a set    *)
(* that holds the extremes of the 16-bit range, times every gain n/d       *)
(* within the bounds.                                                      *)
(***************************************************************************)
MaxGainNum == 5
MaxGainDen == 3

Format16LE ==
    [bitDepth |-> 16, endianness |-> "LE", channels |-> 1,
     sampleRate |-> 256, blockAlign |-> 2, byteRate |-> 512]

SampleBuffers ==
    {<<lo, hi>> : lo \in {0, 1, 128, 255}, hi \in {0, 1, 64, 127, 128, 192, 255}}

GainChoices == {Rat(n, d) : n \in 0..MaxGainNum, d \in 1..MaxGainDen}

SampleInit ==
    /\ sBuf \in SampleBuffers
    /\ sGain \in GainChoices
    /\ sOut = <<>>

SampleIdle ==
    /\ sBuf = <<0, 0>>
    /\ sGain = RInt(1)
    /\ sOut = <<>>

ApplyGainToSample ==
    /\ sOut = <<>>
    /\ sOut' = <<transformSample(sBuf, 0, sGain, Format16LE).buf>>
    /\ UNCHANGED <<sBuf, sGain>>
    /\ UNCHANGED <<volumeVars, applyVars, resolverVars>>


(***************************************************************************)
(* apply-audio-levels.js: the pipeline                                     *)
(*   reader.pipe(Chunker(format.blockAlign * 1024)).pipe(transform)        *)
(*         .pipe(writer)                                                   *)
(***************************************************************************)
ChunkFrames == 1024
MaxChunks == 2
PieceBytes == 3000

chunkSize == format.blockAlign * ChunkFrames

MakeFormat(bitDepth, endianness, channels) ==
    [bitDepth |-> bitDepth, endianness |-> endianness, channels |-> channels,
     sampleRate |-> 256, blockAlign |-> channels * (bitDepth \div 8),
     byteRate |-> 256 * channels * (bitDepth \div 8)]

FormatChoices ==
    {MakeFormat(16, "LE", 1), MakeFormat(16, "LE", 2),
     MakeFormat(24, "LE", 1), MakeFormat(16, "BE", 1), MakeFormat(8, "LE", 2)}

FrameCounts ==
    {k * ChunkFrames + r : k \in 0..MaxChunks, r \in {0, 1, ChunkFrames - 1}}

\* samples 32767, -32768, 1, -1, -3, 3, 20000, -20000, 0 when 16-bit LE
PatternBytes ==
    <<255, 127, 0, 128, 1, 0, 255, 255, 253, 255, 3, 0, 32, 78, 224, 177, 0, 0>>

InputBytes(n) == [j \in 1..n |-> PatternBytes[((j - 1) % Len(PatternBytes)) + 1]]

UnitLevels ==
    <<[time |-> RInt(0), value |-> RInt(1)], [time |-> RInt(8), value |-> RInt(1)]>>

RampLevels ==
    <<[time |-> RInt(1), value |-> RInt(0)], [time |-> RInt(3), value |-> RInt(2)]>>

LevelsChoices == {<<>>, UnitLevels, RampLevels}

ApplyInit ==
    /\ format \in FormatChoices
    /\ levels \in LevelsChoices
    /\ \E frames \in FrameCounts : input = InputBytes(frames * format.blockAlign)
    /\ apc = "start"
    /\ readPos = 0
    /\ chunkerBuf = <<>>
    /\ chunkerEnded = FALSE
    /\ chunkQueue = <<>>
    /\ processed = 0
    /\ writer = <<>>
    /\ writerFormat = <<>>
    /\ outputFile = "absent"
    /\ thrown = "none"

ApplyIdle ==
    /\ format = Format16LE
    /\ levels = <<>>
    /\ input = <<>>
    /\ apc = "off"
    /\ readPos = 0
    /\ chunkerBuf = <<>>
    /\ chunkerEnded = FALSE
    /\ chunkQueue = <<>>
    /\ processed = 0
    /\ writer = <<>>
    /\ writerFormat = <<>>
    /\ outputFile = "absent"
    /\ thrown = "none"

\* reader.on('format'): the writer is made, and with it the output file,
\* before anything looks at the bit depth
OnFormat ==
    /\ apc = "start"
    /\ apc' = "piping"
    /\ writerFormat' = <<format>>
    /\ outputFile' = "open"
    /\ processed' = 0
    /\ UNCHANGED <<format, levels, input, readPos, chunkerBuf, chunkerEnded,
                   chunkQueue, writer, thrown>>
    /\ UNCHANGED notApplyVars

\* the whole chunks emitted last one first
WholeChunks_lastFirst(allData, size) ==
    LET n == Len(allData) \div size
    IN [k \in 1..n |-> SubSeq(allData, (n - k) * size + 1, (n - k + 1) * size)]

\* allData cut into whole chunks of size bytes, as a sequence of chunks
RECURSIVE WholeChunks(_, _)
WholeChunks(allData, size) ==
    IF Len(allData) < size THEN <<>>
    ELSE <<SubSeq(allData, 1, size)>>
         \o WholeChunks(SubSeq(allData, size + 1, Len(allData)), size)

\* the reader emits its next piece and the Chunker takes it in: every whole
\* chunk of what it now holds goes on, the remainder stays in its buffer
ReaderData ==
    /\ apc = "piping"
    /\ readPos < Len(input)
    /\ \E n \in {Len(input) - readPos, PieceBytes} :
        /\ n <= Len(input) - readPos
        /\ LET allData == chunkerBuf \o SubSeq(input, readPos + 1, readPos + n)
               remainder == Len(allData) % chunkSize
               cutoff == Len(allData) - remainder
           IN /\ chunkQueue' = chunkQueue \o WholeChunks(allData, chunkSize)
              /\ chunkerBuf' = SubSeq(allData, cutoff + 1, Len(allData))
        /\ readPos' = readPos + n
    /\ UNCHANGED <<format, levels, input, apc, chunkerEnded, processed,
                   writer, writerFormat, outputFile, thrown>>
    /\ UNCHANGED notApplyVars

\* the time counted from the start of the chunk, not of the stream
FrameTime_withinChunk(i) == [n |-> i, d |-> format.byteRate]

\* the time the transform computes for the frame at byte offset i of a chunk
FrameTime(i) == [n |-> processed + i, d |-> format.byteRate]

\* the chunk after the transform's two loops.  Byte j (from 0) lies in the
\* frame at offset i and, within it, in the channel scalar at offset o; each
\* scalar is read before it is written and no two scalars overlap, so the
\* in-place loop is this map.
TransformedChunk(chunk) ==
    LET channelBytes == format.blockAlign \div format.channels
    IN [k \in 1..Len(chunk) |->
          LET j == k - 1
              i == (j \div format.blockAlign) * format.blockAlign
              channel == (j - i) \div channelBytes
              o == i + channelBytes * channel
          IN IF j - o < 2
             THEN transformSample(<<chunk[o + 1], chunk[o + 2]>>, 0,
                                  getVolume(FrameTime(i), levels),
                                  format).buf[j - o + 1]
             ELSE chunk[k]]

\* transform(chunk, encoding, cb): with a format other than 16-bit LE the
\* first readFormat throws, nothing is pushed and the process dies
Transform ==
    /\ apc = "piping"
    /\ chunkQueue # <<>>
    /\ LET chunk == Head(chunkQueue)
       IN \/ /\ Supported(format)
             /\ writer' = Append(writer, TransformedChunk(chunk))
             /\ processed' = processed + Len(chunk)
             /\ chunkQueue' = Tail(chunkQueue)
             /\ UNCHANGED <<apc, thrown>>
          \/ /\ ~Supported(format)
             /\ thrown' = readFormat(chunk, 0, format).error
             /\ apc' = "crashed"
             /\ UNCHANGED <<writer, processed, chunkQueue>>
    /\ UNCHANGED <<format, levels, input, readPos, chunkerBuf, chunkerEnded,
                   writerFormat, outputFile>>
    /\ UNCHANGED notApplyVars

\* the reader ends: the Chunker was made without the flush option, so what it
\* still holds is not emitted
ChunkerEnd ==
    /\ apc = "piping"
    /\ readPos = Len(input)
    /\ ~chunkerEnded
    /\ chunkerEnded' = TRUE
    /\ UNCHANGED <<format, levels, input, apc, readPos, chunkerBuf, chunkQueue,
                   processed, writer, writerFormat, outputFile, thrown>>
    /\ UNCHANGED notApplyVars

\* the end reaches the writer once every emitted chunk went through
WriterEnd ==
    /\ apc = "piping"
    /\ chunkerEnded
    /\ chunkQueue = <<>>
    /\ apc' = "finished"
    /\ outputFile' = "closed"
    /\ UNCHANGED <<format, levels, input, readPos, chunkerBuf, chunkerEnded,
                   chunkQueue, processed, writer, writerFormat, thrown>>
    /\ UNCHANGED notApplyVars


(***************************************************************************)
(* index.js: numbers.                                                      *)
(*                                                                         *)
(* The corrected variant multiplies every time by recordingTimeMultiplier  *)
(* m = 0.9999541021 and every tempo by tempoMultiplier = 1/m.  A time or   *)
(* beat is kept exactly as [x, y, z], standing for x + y*m + z/m, in units *)
(* of 0.05 s (times) and of 1/1200 beat (beats: 0.05 s at 1 BPM).  With    *)
(* e = 1 - m, m * (x + y*m + z/m) = (x+y+z) - (x+2y)*e + y*e^2, and e is   *)
(* so small (4.6e-5) that for the integers of this model the sign is that  *)
(* of the first of x+y+z, -(x+2y), y that is not zero.  The uncorrected    *)
(* variant has m = 1 and uses x alone.                                     *)
(***************************************************************************)
Q(x, y, z) == [x |-> x, y |-> y, z |-> z]
QAdd(a, b) == Q(a.x + b.x, a.y + b.y, a.z + b.z)
QSub(a, b) == Q(a.x - b.x, a.y - b.y, a.z - b.z)
QScale(a, k) == Q(a.x * k, a.y * k, a.z * k)
\* a / m, for a without a 1/m part
QDivM(a) == Q(a.y, 0, a.x)
Sgn(k) == IF k < 0 THEN -1 ELSE IF k > 0 THEN 1 ELSE 0
QSign(a) ==
    IF a.x + a.y + a.z # 0 THEN Sgn(a.x + a.y + a.z)
    ELSE IF a.x + 2 * a.y # 0 THEN -Sgn(a.x + 2 * a.y)
    ELSE Sgn(a.y)
QCmp(a, b) == QSign(QSub(a, b))

\* a tempo is bpm * tempoMultiplier^pow, or null
Tempo(bpm, pow) == [isNull |-> FALSE, bpm |-> bpm, pow |-> IF bpm = 0 THEN 0 ELSE pow]
NullTempo == [isNull |-> TRUE, bpm |-> 0, pow |-> 0]

Corrected == variant = "corrected"

\* event[0] * recordingTimeMultiplier, or event[0]
EventTime(raw) == IF Corrected THEN Q(0, raw, 0) ELSE Q(raw, 0, 0)

\* t * tempoMultiplier: 1 / recordingTimeMultiplier, or 1; null * x is 0
TimesTempoMultiplier(t) ==
    IF t.isNull THEN Tempo(0, 0)
    ELSE IF Corrected THEN Tempo(t.bpm, t.pow + 1)
    ELSE t

DefaultTempo == 120
StepHoldGap == 2
StepHoldBack == 1

\* dt / beatDuration with beatDuration = 60 / lastTempo: dt * lastTempo / 60
BeatsIn(dt, lastTempo) ==
    IF lastTempo.pow = 0 THEN QScale(dt, lastTempo.bpm)
    ELSE QDivM(QScale(dt, lastTempo.bpm))

\* value * value * 1.618 with value = event[3] / 127
VolumeOf(raw) == Rat(raw * raw * 1618, 127 * 127 * 1000)

Last(seq) == seq[Len(seq)]

(***************************************************************************)
(* index.js: the pass over the event log.                                  *)
(***************************************************************************)
MaxLines == 3
MaxTime == 3

RawTimes == 0..MaxTime
BpmInputs == {60, 480}
TrackInputs == {0, 5, 6}
ValueInputs == {0, 127}

\* the tracks array: five tracks in the corrected variant, six in the other
NumTracks == IF Corrected THEN 5 ELSE 6

\* the tracks' fileName after baseName, and its extension
TrackFileNames ==
    IF Corrected THEN <<"-sampler", "-ext", "-bass", "-synth", "-fx">>
    ELSE <<"-sampler", "-bass", "-synth", "-vox", "-looper", "-fx">>

ConfiguredFileName(tr) == <<TrackFileNames[tr + 1], ".wav">>

\* nothing exported yet
ExportStart ==
    /\ exportPos = 0
    /\ fileName = [tr \in 0..(NumTracks - 1) |-> ConfiguredFileName(tr)]
    /\ trackDuration = [tr \in 0..(NumTracks - 1) |-> <<>>]
    /\ audioFiles = {}
    /\ levelsFiles = <<>>

ResolverInit ==
    /\ variant \in {"corrected", "uncorrected"}
    /\ rpc = "parsing"
    /\ lineNo = 0
    /\ lastTime = -1
    /\ line = <<>>
    /\ chronological = TRUE
    /\ tempo = <<>>
    /\ ticks = <<>>
    /\ duration = Q(0, 0, 0)
    /\ length = Q(0, 0, 0)
    /\ tempoEvents = <<>>
    /\ timeAtLastTempoChange = Q(0, 0, 0)
    /\ beatAtLastTempoChange = Q(0, 0, 0)
    /\ tickDurations = <<>>
    /\ volumeEvents = [tr \in 0..(NumTracks - 1) |-> <<>>]
    /\ ExportStart

ResolverIdle ==
    /\ variant = "uncorrected"
    /\ rpc = "off"
    /\ lineNo = 0
    /\ lastTime = -1
    /\ line = <<>>
    /\ chronological = TRUE
    /\ tempo = <<>>
    /\ ticks = <<>>
    /\ duration = Q(0, 0, 0)
    /\ length = Q(0, 0, 0)
    /\ tempoEvents = <<>>
    /\ timeAtLastTempoChange = Q(0, 0, 0)
    /\ beatAtLastTempoChange = Q(0, 0, 0)
    /\ tickDurations = <<>>
    /\ volumeEvents = <<>>
    /\ exportPos = 0
    /\ fileName = <<>>
    /\ trackDuration = <<>>
    /\ audioFiles = {}
    /\ levelsFiles = <<>>

\* lastTempoEvent ? lastTempoEvent.tempo : 120
lastTempo ==
    IF tempoEvents # <<>> THEN Last(tempoEvents).tempo ELSE Tempo(DefaultTempo, 0)

\* beatAtLastTempoChange + (timeSinceTempoChange / beatDuration)
BeatAt(time) ==
    QAdd(beatAtLastTempoChange,
         BeatsIn(QSub(time, timeAtLastTempoChange), lastTempo))

\* a record was parsed: the position in the log moves on
Parsed(raw, type, index) ==
    /\ rpc = "parsing"
    /\ line' = <<type, index>>
    /\ lineNo < MaxLines
    /\ lineNo' = lineNo + 1
    /\ lastTime' = raw
    /\ chronological' = (chronological /\ raw >= lastTime)
    /\ UNCHANGED <<variant, rpc>>
    /\ UNCHANGED exportVars
    /\ UNCHANGED notResolverVars

\* tryParse gave undefined (or a falsy value): the line is skipped
ReadUnparsable ==
    /\ rpc = "parsing"
    /\ lineNo < MaxLines
    /\ lineNo' = lineNo + 1
    /\ line' = <<"unparsable", 0>>
    /\ UNCHANGED <<variant, rpc, lastTime, chronological, tempo, ticks,
                   duration, length, tempoEvents, timeAtLastTempoChange,
                   beatAtLastTempoChange, tickDurations, volumeEvents>>
    /\ UNCHANGED exportVars
    /\ UNCHANGED notResolverVars

\* a record whose type is none of the three
ReadOther ==
    \E raw \in RawTimes :
        /\ Parsed(raw, "other", 0)
        /\ UNCHANGED <<tempo, ticks, duration, length, tempoEvents,
                       timeAtLastTempoChange, beatAtLastTempoChange,
                       tickDurations, volumeEvents>>

\* the totals kept at the tick that is furthest in time, not the last one read
ReadTick_furthest ==
    \E raw \in RawTimes :
        LET time == EventTime(raw)
            beat == BeatAt(time)
            further == QCmp(time, duration) > 0
        IN /\ Parsed(raw, "tick", 0)
           /\ duration' = IF further THEN time ELSE duration
           /\ length' = IF further THEN beat ELSE length
           /\ tickDurations' =
                 IF ticks # <<>>
                 THEN Append(tickDurations, QSub(time, Last(ticks)))
                 ELSE tickDurations
           /\ ticks' = Append(ticks, time)
           /\ UNCHANGED <<tempo, tempoEvents, timeAtLastTempoChange,
                          beatAtLastTempoChange, volumeEvents>>

ReadTick ==
    \E raw \in RawTimes :
        LET time == EventTime(raw)
            beat == BeatAt(time)
        IN /\ Parsed(raw, "tick", 0)
           /\ duration' = time
           /\ length' = beat
           /\ tickDurations' =
                 IF ticks # <<>>
                 THEN Append(tickDurations, QSub(time, Last(ticks)))
                 ELSE tickDurations
           /\ ticks' = Append(ticks, time)
           /\ UNCHANGED <<tempo, tempoEvents, timeAtLastTempoChange,
                          beatAtLastTempoChange, volumeEvents>>

\* the two pushes in the other order
pushVolumeEvents_swapped(events, time, beat, value) ==
    LET real == [time |-> time, beat |-> beat, value |-> VolumeOf(value)]
        hold == [time |-> QSub(time, Q(StepHoldBack, 0, 0)),
                 beat |-> QSub(beat, BeatsIn(Q(StepHoldBack, 0, 0), lastTempo)),
                 value |-> Last(events).value]
    IN IF events # <<>>
          /\ QCmp(QSub(time, Last(events).time), Q(StepHoldGap, 0, 0)) > 0
       THEN events \o <<real, hold>>
       ELSE Append(events, real)

\* the gap test with >= for >
pushVolumeEvents_atGap(events, time, beat, value) ==
    LET real == [time |-> time, beat |-> beat, value |-> VolumeOf(value)]
        hold == [time |-> QSub(time, Q(StepHoldBack, 0, 0)),
                 beat |-> QSub(beat, BeatsIn(Q(StepHoldBack, 0, 0), lastTempo)),
                 value |-> Last(events).value]
    IN IF events # <<>>
          /\ QCmp(QSub(time, Last(events).time), Q(StepHoldGap, 0, 0)) >= 0
       THEN events \o <<hold, real>>
       ELSE Append(events, real)

\* the two pushes of the channel_volume branch on one track's keyframes
pushVolumeEvents(events, time, beat, value) ==
    LET real == [time |-> time, beat |-> beat, value |-> VolumeOf(value)]
        hold == [time |-> QSub(time, Q(StepHoldBack, 0, 0)),
                 beat |-> QSub(beat, BeatsIn(Q(StepHoldBack, 0, 0), lastTempo)),
                 value |-> Last(events).value]
    IN IF events # <<>>
          /\ QCmp(QSub(time, Last(events).time), Q(StepHoldGap, 0, 0)) > 0
       THEN events \o <<hold, real>>
       ELSE Append(events, real)

\* an index past the end of the tracks array wraps around to a track
trackAt_wrapped(index) == <<index % NumTracks>>

\* tracks[event[2]]: <<the index>> of the track, <<>> when it is undefined
trackAt(index) == IF index \in DOMAIN volumeEvents THEN <<index>> ELSE <<>>

ReadChannelVolume ==
    \E raw \in RawTimes, index \in TrackInputs, value \in ValueInputs :
        LET time == EventTime(raw)
            beat == BeatAt(time)
        IN /\ Parsed(raw, "channel_volume", index)
           /\ volumeEvents' =
                 IF trackAt(index) # <<>>
                 THEN [volumeEvents EXCEPT
                          ![trackAt(index)[1]] =
                              pushVolumeEvents(@, time, beat, value)]
                 ELSE volumeEvents
           /\ UNCHANGED <<tempo, ticks, duration, length, tempoEvents,
                          timeAtLastTempoChange, beatAtLastTempoChange,
                          tickDurations>>

\* every keyframe's beat recomputed at the new tempo
keyframesAfterTempo_rescaled(events, bpm) ==
    [tr \in DOMAIN events |->
        [i \in 1..Len(events[tr]) |->
            [events[tr][i] EXCEPT !.beat = QScale(events[tr][i].time, bpm)]]]

\* what the tempo branch does to the keyframes: nothing
keyframesAfterTempo(events, bpm) == events

\* the nominal tempo taken from every tempo event, not only the first
ReadTempo_latest ==
    \E raw \in RawTimes, bpm \in BpmInputs :
        LET time == EventTime(raw)
            beat == BeatAt(time)
        IN /\ Parsed(raw, "tempo", 0)
           /\ tempo' = <<bpm>>
           /\ timeAtLastTempoChange' = time
           /\ beatAtLastTempoChange' = beat
           /\ tempoEvents' =
                 Append(tempoEvents,
                        [time |-> time, beat |-> beat,
                         tempo |-> TimesTempoMultiplier(Tempo(bpm, 0))])
           /\ volumeEvents' = keyframesAfterTempo(volumeEvents, bpm)
           /\ UNCHANGED <<ticks, duration, length, tickDurations>>

ReadTempo ==
    \E raw \in RawTimes, bpm \in BpmInputs :
        LET time == EventTime(raw)
            beat == BeatAt(time)
        IN /\ Parsed(raw, "tempo", 0)
           /\ tempo' = IF tempo = <<>> \/ tempo = <<0>> THEN <<bpm>> ELSE tempo
           /\ timeAtLastTempoChange' = time
           /\ beatAtLastTempoChange' = beat
           /\ tempoEvents' =
                 Append(tempoEvents,
                        [time |-> time, beat |-> beat,
                         tempo |-> TimesTempoMultiplier(Tempo(bpm, 0))])
           /\ volumeEvents' = keyframesAfterTempo(volumeEvents, bpm)
           /\ UNCHANGED <<ticks, duration, length, tickDurations>>

\* after the loop: the closing entry of the tempo map
CloseTempoMap ==
    /\ rpc = "parsing"
    /\ rpc' = "closed"
    /\ LET last == IF tempoEvents # <<>> THEN Last(tempoEvents).tempo
                   ELSE IF tempo = <<>> THEN NullTempo
                   ELSE Tempo(tempo[1], 0)
       IN tempoEvents' =
             Append(tempoEvents,
                    [time |-> duration, beat |-> length,
                     tempo |-> IF Corrected THEN TimesTempoMultiplier(last)
                               ELSE last])
    /\ UNCHANGED <<variant, lineNo, lastTime, line, chronological, tempo, ticks,
                   duration, length, timeAtLastTempoChange,
                   beatAtLastTempoChange, tickDurations, volumeEvents>>
    /\ UNCHANGED exportVars
    /\ UNCHANGED notResolverVars

(***************************************************************************)
(* index.js: the export step, tracks.forEach after the closing entry.      *)
(***************************************************************************)
BakeThreshold == 500

\* the test with >= for >
tooManyVolumeEvents_atThreshold(events) == Len(events) >= BakeThreshold

\* track.volumeEvents.length > 500
tooManyVolumeEvents(events) == Len(events) > BakeThreshold

\* Path.basename(fileName, ext) + '-with-levels' + ext
leveledName(name) ==
    LET ext == Last(name)
    IN SubSeq(name, 1, Len(name) - 1) \o <<"-with-levels", ext>>

\* outPath + '.levels'
levelsName(name) == Append(name, ".levels")

\* one turn of tracks.forEach.  sox writes the track's audio; with more than
\* 500 keyframes the corrected variant writes them to the .levels file and
\* runs apply-audio-levels on the audio: execFileSync returns when the child
\* ended well, and throws, ending the export, when it did not.
ExportTrack ==
    /\ rpc = "closed"
    /\ exportPos < NumTracks
    /\ LET tr == exportPos
           outPath == fileName[tr]
       IN /\ trackDuration' = [trackDuration EXCEPT ![tr] = <<length>>]
          /\ IF Corrected /\ tooManyVolumeEvents(volumeEvents[tr])
             THEN /\ levelsFiles' =
                        (levelsName(outPath) :> volumeEvents[tr]) @@ levelsFiles
                  /\ \/ /\ audioFiles' =
                              audioFiles \cup {outPath, leveledName(outPath)}
                        /\ fileName' =
                              [fileName EXCEPT ![tr] = leveledName(outPath)]
                        /\ volumeEvents' = [volumeEvents EXCEPT ![tr] = <<>>]
                        /\ exportPos' = exportPos + 1
                        /\ UNCHANGED rpc
                     \/ /\ audioFiles' = audioFiles \cup {outPath}
                        /\ rpc' = "crashed"
                        /\ UNCHANGED <<fileName, volumeEvents, exportPos>>
             ELSE /\ audioFiles' = audioFiles \cup {outPath}
                  /\ exportPos' = exportPos + 1
                  /\ UNCHANGED <<levelsFiles, fileName, volumeEvents, rpc>>
    /\ UNCHANGED <<variant, lineNo, lastTime, line, chronological, tempo, ticks,
                   duration, length, tempoEvents, timeAtLastTempoChange,
                   beatAtLastTempoChange, tickDurations>>
    /\ UNCHANGED notResolverVars

\* the keyframes of a track that got n channel_volume records of value 127,
\* 0.05 s apart from 0.05 s on, in a log without tempo records
KeyframeRun(n) ==
    [i \in 1..n |-> [time |-> EventTime(i),
                     beat |-> QScale(EventTime(i), DefaultTempo),
                     value |-> VolumeOf(127)]]

KeyframeCounts == {0, BakeThreshold, BakeThreshold + 1}

RECURSIVE SumTo(_, _)
SumTo(counts, tr) == IF tr < 0 THEN 0 ELSE counts[tr] + SumTo(counts, tr - 1)

\* the state after the pass and the closing entry for a log that held only
\* channel_volume records, each track's count drawn from KeyframeCounts
ExportInit ==
    /\ variant \in {"corrected", "uncorrected"}
    /\ rpc = "closed"
    /\ \E counts \in [0..(NumTracks - 1) -> KeyframeCounts] :
          LET most == CHOOSE tr \in DOMAIN counts :
                          \A other \in DOMAIN counts : counts[other] <= counts[tr]
          IN /\ volumeEvents = [tr \in DOMAIN counts |-> KeyframeRun(counts[tr])]
             /\ lineNo = SumTo(counts, NumTracks - 1)
             /\ lastTime = IF counts[most] = 0 THEN -1 ELSE counts[most]
             /\ line = IF counts[most] = 0 THEN <<>>
                       ELSE <<"channel_volume", most>>
    /\ chronological = TRUE
    /\ tempo = <<>>
    /\ ticks = <<>>
    /\ duration = Q(0, 0, 0)
    /\ length = Q(0, 0, 0)
    /\ tempoEvents = <<[time |-> Q(0, 0, 0), beat |-> Q(0, 0, 0),
                        tempo |-> IF Corrected THEN TimesTempoMultiplier(NullTempo)
                                  ELSE NullTempo]>>
    /\ timeAtLastTempoChange = Q(0, 0, 0)
    /\ beatAtLastTempoChange = Q(0, 0, 0)
    /\ tickDurations = <<>>
    /\ ExportStart

(***************************************************************************)
(* Specifications.                                                         *)
(***************************************************************************)
InitVolume == VolumeInit /\ SampleIdle /\ ApplyIdle /\ ResolverIdle
NextVolume == CallGetVolume
SpecVolume == InitVolume /\ [][NextVolume]_vars

InitSample == SampleInit /\ VolumeIdle /\ ApplyIdle /\ ResolverIdle
NextSample == ApplyGainToSample
SpecSample == InitSample /\ [][NextSample]_vars

InitApply == ApplyInit /\ VolumeIdle /\ SampleIdle /\ ResolverIdle
NextApply == OnFormat \/ ReaderData \/ Transform \/ ChunkerEnd \/ WriterEnd
SpecApply == InitApply /\ [][NextApply]_vars

InitExport == ExportInit /\ VolumeIdle /\ SampleIdle /\ ApplyIdle
NextExport == ExportTrack
SpecExport == InitExport /\ [][NextExport]_vars

Init == ResolverInit /\ VolumeIdle /\ SampleIdle /\ ApplyIdle
Next ==
    \/ ReadUnparsable
    \/ ReadOther
    \/ ReadTick
    \/ ReadChannelVolume
    \/ ReadTempo
    \/ CloseTempoMap
Spec == Init /\ [][Next]_vars

(***************************************************************************)
(* Claims about getVolume.                                                 *)
(***************************************************************************)
KeyframesAt(events, time) ==
    {i \in 1..Len(events) : RCmp(events[i].time, time) = 0}
KeyframesBefore(events, time) ==
    {i \in 1..Len(events) : RCmp(events[i].time, time) < 0}
KeyframesAfter(events, time) ==
    {i \in 1..Len(events) : RCmp(events[i].time, time) > 0}
\* the keyframes of idx with the greatest (dir = 1) or least (dir = -1) time
Extreme(events, idx, dir) ==
    {i \in idx : \A j \in idx :
        dir * RCmp(events[j].time, events[i].time) <= 0}
\* r = b.value + (a.value - b.value) * (t - b.time) / (a.time - b.time),
\* cleared of the division
OnTheLine(r, t, b, a) ==
    REq(RMul(RSub(r, b.value), RSub(a.time, b.time)),
        RMul(RSub(a.value, b.value), RSub(t, b.time)))

\* C2: on a non-empty keyframe array sorted by time, getVolume(t) is the gain
\* of a keyframe at t when there is one; else the linear interpolation
\* between the greatest keyframe before t and the least keyframe after t;
\* else the last keyframe's gain (t after all) or the first's (t before all).
C2_GetVolumeInterpolates ==
    (vResult # <<>> /\ vEvents # <<>>) =>
        LET r == vResult[1]
            at == KeyframesAt(vEvents, vTime)
            before == KeyframesBefore(vEvents, vTime)
            after == KeyframesAfter(vEvents, vTime)
        IN IF at # {} THEN \E i \in at : REq(r, vEvents[i].value)
           ELSE IF before # {} /\ after # {}
           THEN \E b \in Extreme(vEvents, before, 1) :
                \E a \in Extreme(vEvents, after, -1) :
                    OnTheLine(r, vTime, vEvents[b], vEvents[a])
           ELSE IF before # {} THEN REq(r, vEvents[Len(vEvents)].value)
           ELSE REq(r, vEvents[1].value)

\* a query strictly between two keyframes of different gain, answered with a
\* gain strictly between theirs
C2_Witness ==
    /\ vResult # <<>>
    /\ Len(vEvents) = 3
    /\ KeyframesAt(vEvents, vTime) = {}
    /\ KeyframesBefore(vEvents, vTime) # {}
    /\ KeyframesAfter(vEvents, vTime) # {}
    /\ \A i \in 1..Len(vEvents) : ~REq(vResult[1], vEvents[i].value)

(***************************************************************************)
(* Claims about one sample.                                                *)
(***************************************************************************)
\* the signed 16-bit value of two bytes, low byte first
SignedLE(buf) ==
    IF buf[2] >= 128 THEN buf[1] + 256 * buf[2] - 65536
    ELSE buf[1] + 256 * buf[2]

\* w is q with its fraction dropped: an integer between 0 and q, less than
\* one away from q
IsTruncationOf(w, q) ==
    /\ q.n >= 0 => (0 <= w * q.d /\ w * q.d <= q.n /\ q.n - w * q.d < q.d)
    /\ q.n <= 0 => (q.n <= w * q.d /\ w * q.d <= 0 /\ w * q.d - q.n < q.d)

SampleProduct == RMul(RInt(SignedLE(sBuf)), sGain)

\* C7 (amended): the value written for sample s and gain g >= 0 is s*g with
\* its fraction dropped (toward zero) when s*g lies in [-32768, 32767],
\* exactly 32767 when s*g > 32767 and exactly -32768 when s*g < -32768; it
\* never wraps around modulo 2^16.
C7_ClipsAndTruncates ==
    sOut # <<>> =>
        LET w == SignedLE(sOut[1])
            p == SampleProduct
        IN IF RCmp(p, RInt(32767)) > 0 THEN w = 32767
           ELSE IF RCmp(p, RInt(-32768)) < 0 THEN w = -32768
           ELSE IsTruncationOf(w, p)

\* C7 as stated: the value written is s*g itself whenever s*g lies in
\* [-32768, 32767].
C7_WritesExactProduct ==
    sOut # <<>> =>
        LET w == SignedLE(sOut[1])
            p == SampleProduct
        IN IF RCmp(p, RInt(32767)) > 0 THEN w = 32767
           ELSE IF RCmp(p, RInt(-32768)) < 0 THEN w = -32768
           ELSE REq(RInt(w), p)

\* a product below the range has been written as -32768
C7_Witness ==
    /\ sOut # <<>>
    /\ RCmp(SampleProduct, RInt(-32768)) < 0
    /\ SignedLE(sOut[1]) = -32768

(***************************************************************************)
(* Claims about the applicator pipeline.                                   *)
(***************************************************************************)
RECURSIVE Flatten(_)
Flatten(chunks) ==
    IF chunks = <<>> THEN <<>> ELSE Head(chunks) \o Flatten(Tail(chunks))

BytesWritten == Len(Flatten(writer))

\* C1: for a 16-bit LE input of N frames, whatever N, the finished pipeline
\* has handed exactly N frames to the writer, and the writer was made with
\* the input's sample rate, channel count and bit depth.
C1_EveryFrameReachesWriter ==
    (apc = "finished" /\ Supported(format)) =>
        /\ BytesWritten = Len(input)
        /\ writerFormat = <<format>>

\* C3: with no keyframes getVolume is 1 at every frame's time, and each chunk
\* the transform pushes is the chunk it was given, byte for byte.
C3_EmptyLevelsPassThrough ==
    [][(levels = <<>> /\ writer' # writer) =>
          /\ writer' = Append(writer, Head(chunkQueue))
          /\ \A f \in 0..(ChunkFrames - 1) :
                REq(getVolume(FrameTime(f * format.blockAlign), levels), RInt(1))
      ]_vars

\* a chunk holding the extreme samples went through with no keyframes
C3_Witness ==
    /\ levels = <<>>
    /\ Len(writer) = 1
    /\ writer[1][1] = 255
    /\ writer[1][2] = 127
    /\ format.channels = 2

\* C5: with a format other than 16-bit LE, whatever the frame count, the run
\* ends in an 'Unsupported format' error, the output file is never created
\* or opened, and no chunk reaches the writer.
C5_UnsupportedFailsBeforeOutput ==
    ~Supported(format) =>
        /\ outputFile = "absent"
        /\ writer = <<>>
        /\ apc # "finished"
        /\ apc = "crashed" => thrown = UnsupportedFormat

\* C6: with keyframes of constant gain 1.0 the finished run has written the
\* input's bytes, all of them and nothing else.
C6_UnitGainReproducesInput ==
    (apc = "finished" /\ Supported(format) /\ levels = UnitLevels) =>
        Flatten(writer) = input

(***************************************************************************)
(* Claims about the resolver.                                              *)
(***************************************************************************)
Tracks == DOMAIN volumeEvents

\* 0.1 s and 0.05 s in the unit of times
TenthOfSecond == Q(2, 0, 0)
TwentiethOfSecond == Q(1, 0, 0)

IsPrefix(old, new) ==
    /\ Len(old) <= Len(new)
    /\ \A i \in 1..Len(old) : new[i] = old[i]

\* C4: a channel_volume event at time t on a track whose last keyframe has
\* time p and gain g appends (t - 0.05, g) and then the keyframe at t when
\* t - p > 0.1, and the keyframe at t alone when t - p <= 0.1 or the track
\* has no keyframe yet.
C4_StepHoldSynthesis ==
    [][\A tr \in Tracks :
          volumeEvents'[tr] # volumeEvents[tr] =>
              LET old == volumeEvents[tr]
                  new == volumeEvents'[tr]
                  t == EventTime(lastTime')
              IN IF old # <<>> /\ QCmp(QSub(t, Last(old).time), TenthOfSecond) > 0
                 THEN /\ Len(new) = Len(old) + 2
                      /\ IsPrefix(old, new)
                      /\ new[Len(old) + 1].time = QSub(t, TwentiethOfSecond)
                      /\ new[Len(old) + 1].value = Last(old).value
                      /\ new[Len(old) + 2].time = t
                 ELSE /\ Len(new) = Len(old) + 1
                      /\ IsPrefix(old, new)
                      /\ new[Len(old) + 1].time = t
      ]_vars

\* a track whose second event came more than 0.1 s after its first: the
\* first keyframe, a synthetic one 0.05 s before the second holding the first
\* gain, and the second
C4_Witness ==
    \E tr \in Tracks :
        /\ Len(volumeEvents[tr]) = 3
        /\ QCmp(QSub(volumeEvents[tr][3].time, volumeEvents[tr][1].time),
                TenthOfSecond) > 0
        /\ volumeEvents[tr][2].time = QSub(volumeEvents[tr][3].time, TwentiethOfSecond)
        /\ volumeEvents[tr][2].value = volumeEvents[tr][1].value
        /\ volumeEvents[tr][2].value # volumeEvents[tr][3].value

\* C8: no step of the pass changes the time, beat or gain of a keyframe that
\* is already there, and the beat of each keyframe appended for an event is
\* the one given by the tempo anchor in effect before that event.
C8_CausalTempoResolution ==
    [][\A tr \in Tracks :
          /\ IsPrefix(volumeEvents[tr], volumeEvents'[tr])
          /\ volumeEvents'[tr] # volumeEvents[tr] =>
                Last(volumeEvents'[tr]).beat =
                    QAdd(beatAtLastTempoChange,
                         BeatsIn(QSub(Last(volumeEvents'[tr]).time,
                                      timeAtLastTempoChange),
                                 lastTempo))
      ]_vars

\* a keyframe set at 120 BPM (its beat is 120 * its time) is still there
\* after a later tempo event at another tempo moved the anchor past it
C8_Witness ==
    /\ tempoEvents # <<>>
    /\ Last(tempoEvents).tempo.bpm # DefaultTempo
    /\ \E tr \in Tracks :
          /\ volumeEvents[tr] # <<>>
          /\ QSign(volumeEvents[tr][1].time) > 0
          /\ QCmp(volumeEvents[tr][1].time, timeAtLastTempoChange) < 0
          /\ volumeEvents[tr][1].beat = QScale(volumeEvents[tr][1].time, DefaultTempo)

\* C9: after a log with non-decreasing times no two keyframes of a track
\* have the same time.
C9_KeyframesUniqueByTime ==
    chronological =>
        \A tr \in Tracks :
            \A i, j \in 1..Len(volumeEvents[tr]) :
                i # j => QCmp(volumeEvents[tr][i].time, volumeEvents[tr][j].time) # 0

\* C10: after a log with non-decreasing times each track's keyframes, real
\* and synthetic together, are in ascending order of time.
C10_KeyframesAscending ==
    chronological =>
        \A tr \in Tracks :
            \A i \in 1..(Len(volumeEvents[tr]) - 1) :
                QCmp(volumeEvents[tr][i].time, volumeEvents[tr][i + 1].time) <= 0

\* a track with a real keyframe, a synthetic one and a real one, from a log
\* in time order
C10_Witness ==
    /\ chronological
    /\ \E tr \in Tracks :
          /\ Len(volumeEvents[tr]) = 3
          /\ volumeEvents[tr][2].value = volumeEvents[tr][1].value
          /\ QCmp(volumeEvents[tr][1].time, volumeEvents[tr][2].time) < 0
          /\ QCmp(volumeEvents[tr][2].time, volumeEvents[tr][3].time) < 0

\* the entries of the tempo map that tempo events made: all but the closing one
TempoEntries ==
    IF rpc = "closed" THEN SubSeq(tempoEvents, 1, Len(tempoEvents) - 1)
    ELSE tempoEvents

\* C11: once the closing entry is appended after a log with non-decreasing
\* times, the tempo map is strictly increasing in time and in beat from each
\* entry to the next, the closing entry included.
C11_TempoMapStrictlyIncreasing ==
    (rpc = "closed" /\ chronological) =>
        \A i \in 1..(Len(tempoEvents) - 1) :
            /\ QCmp(tempoEvents[i].time, tempoEvents[i + 1].time) < 0
            /\ QCmp(tempoEvents[i].beat, tempoEvents[i + 1].beat) < 0

\* C12: in both variants the closing entry is (totalDuration, totalBeats,
\* lastTempo), lastTempo being the tempo stored in the last entry that a
\* tempo event made.
C12_ClosingEntryRepeatsLastTempo ==
    (rpc = "closed" /\ TempoEntries # <<>>) =>
        Last(tempoEvents) = [time |-> duration, beat |-> length,
                             tempo |-> Last(TempoEntries).tempo]

\* a step that handled one more line of the log
LineHandled == lineNo' = lineNo + 1

\* what the resolver has built: nominal tempo, totals, tempo map, anchors,
\* tick list and every track's keyframes
ResolverState ==
    <<tempo, ticks, duration, length, tempoEvents, timeAtLastTempoChange,
      beatAtLastTempoChange, tickDurations, volumeEvents>>

\* C13: a line that does not parse, a record of an unknown type and a
\* channel_volume record whose track index is outside the configured tracks
\* each leave the whole resolver state as it was, and the pass goes on with
\* the next line.
C13_SkippedLinesChangeNothing ==
    [][(/\ LineHandled
        /\ \/ line'[1] \in {"unparsable", "other"}
           \/ /\ line'[1] = "channel_volume"
              /\ line'[2] \notin 0..(NumTracks - 1))
          => /\ ResolverState' = ResolverState
             /\ rpc' = "parsing"
      ]_vars

\* a channel_volume record for track 5 of the five-track variant, read when
\* there were keyframes and tempo entries to disturb
C13_Witness ==
    /\ Corrected
    /\ rpc = "parsing"
    /\ line = <<"channel_volume", 5>>
    /\ tempoEvents # <<>>
    /\ \E tr \in Tracks : volumeEvents[tr] # <<>>

\* C14: totalDuration and totalBeats start at 0, a tick record sets them to
\* its (drift-corrected) time and to the beat computed for it from the tempo
\* anchor, and no other step changes them: they are those of the last tick
\* in log order, and 0 when the log has no tick.
C14_TotalsAreLastTick ==
    /\ duration = Q(0, 0, 0)
    /\ length = Q(0, 0, 0)
    /\ [][IF LineHandled /\ line'[1] = "tick"
          THEN /\ duration' = EventTime(lastTime')
               /\ length' = QAdd(beatAtLastTempoChange,
                                 BeatsIn(QSub(EventTime(lastTime'),
                                              timeAtLastTempoChange),
                                         lastTempo))
          ELSE UNCHANGED <<duration, length>>
         ]_vars

\* two ticks, the second earlier in time than the first, after a tempo event:
\* the totals are those of the second
C14_Witness ==
    /\ Len(ticks) = 2
    /\ QCmp(ticks[2], ticks[1]) < 0
    /\ tempoEvents # <<>>
    /\ duration = ticks[2]
    /\ QSign(length) > 0

C19_KeyframeBeatsNonDecreasing ==
    chronological =>
        \A tr \in Tracks :
            /\ \A i \in 1..Len(volumeEvents[tr]) :
                  QSign(volumeEvents[tr][i].beat) >= 0
            /\ \A i \in 1..(Len(volumeEvents[tr]) - 1) :
                  QCmp(volumeEvents[tr][i].beat, volumeEvents[tr][i + 1].beat) <= 0

(***************************************************************************)
(* Claims about the transform's timing and ordering.                       *)
(***************************************************************************)
\* w is what is written for the product p: p cut to [-32768, 32767] and then
\* to an integer
IsClippedTruncationOf(w, p) ==
    IF RCmp(p, RInt(32767)) > 0 THEN w = 32767
    ELSE IF RCmp(p, RInt(-32768)) < 0 THEN w = -32768
    ELSE IsTruncationOf(w, p)

\* the 16-bit sample of channel c in frame f of a byte stream
SampleAt(bytes, f, c) ==
    SignedLE(<<bytes[f * format.blockAlign + 2 * c + 1],
               bytes[f * format.blockAlign + 2 * c + 2]>>)

FramesWritten == BytesWritten \div format.blockAlign

\* C16: the chunk the transform pushes holds, for each of its frames and
\* each channel, the input sample of that frame and channel times
\* getVolume(f / sampleRate, keyframes), f being the frame's index counted
\* from the start of the stream: one gain for the whole frame, whatever the
\* chunk the frame lies in.
C16_GainByStreamFrame ==
    [][writer' # writer =>
          LET out == Last(writer')
              before == FramesWritten
          IN \A k \in 0..((Len(out) \div format.blockAlign) - 1) :
                LET gain == getVolume(Rat(before + k, format.sampleRate), levels)
                IN \A c \in 0..(format.channels - 1) :
                      IsClippedTruncationOf(
                          SampleAt(out, k, c),
                          RMul(RInt(SampleAt(input, before + k, c)), gain))
      ]_vars

\* two stereo chunks went through a ramp that ends inside the first chunk:
\* the first frame of the second chunk (sample 3 on the left) has gain 2 on
\* the left and, clipped, on the right, and the frame at 2 s in the first
\* chunk has gain 1
C16_Witness ==
    /\ levels = RampLevels
    /\ format.channels = 2
    /\ Len(writer) = 2
    /\ SampleAt(input, ChunkFrames, 0) = 3
    /\ SampleAt(writer[2], 0, 0) = 6
    /\ SampleAt(writer[2], 0, 1) = 32767
    /\ SampleAt(writer[1], 2 * format.sampleRate, 0)
          = SampleAt(input, 2 * format.sampleRate, 0)

\* C17: the transform takes the chunks one at a time in the order the bytes
\* were read: the chunk it takes is the input just after what the writer
\* already has, that chunk is transformed whole and pushed once before the
\* next one is taken, so the output keeps the order of the input and each
\* output frame comes from the input frame at its own position.
C17_ChunksInOrderOnce ==
    [][writer' # writer =>
          /\ chunkQueue # <<>>
          /\ Head(chunkQueue)
                = SubSeq(input, BytesWritten + 1, BytesWritten + chunkSize)
          /\ writer' = Append(writer, TransformedChunk(Head(chunkQueue)))
          /\ chunkQueue' = Tail(chunkQueue)
          /\ processed' = BytesWritten + chunkSize
      ]_vars

\* a finished run in which two different chunks went through, each changed
\* by the gain
C17_Witness ==
    /\ apc = "finished"
    /\ levels = RampLevels
    /\ Len(writer) = 2
    /\ writer[1] # SubSeq(input, 1, chunkSize)
    /\ writer[2] # SubSeq(input, chunkSize + 1, 2 * chunkSize)
    /\ writer[1] # writer[2]

(***************************************************************************)
(* Claims about the export step.                                           *)
(***************************************************************************)
ExportDone == rpc = "closed" /\ exportPos = NumTracks

\* the track's gain curve is in its audio: the -with-levels file is the
\* track's file, the .levels file of its configured file holds more than 500
\* keyframes, and its keyframe list is empty
Baked(tr) ==
    /\ fileName[tr] = <<TrackFileNames[tr + 1], "-with-levels", ".wav">>
    /\ fileName[tr] \in audioFiles
    /\ <<TrackFileNames[tr + 1], ".wav", ".levels">> \in DOMAIN levelsFiles
    /\ Len(levelsFiles[<<TrackFileNames[tr + 1], ".wav", ".levels">>]) > 500
    /\ volumeEvents[tr] = <<>>

\* the track's gain curve goes to the template: at most 500 keyframes, the
\* configured file name, no .levels file
Embedded(tr) ==
    /\ fileName[tr] = <<TrackFileNames[tr + 1], ".wav">>
    /\ Len(volumeEvents[tr]) <= 500
    /\ <<TrackFileNames[tr + 1], ".wav", ".levels">> \notin DOMAIN levelsFiles

\* C18: when the export loop of the drift-corrected variant has ended every
\* track is either baked or embedded, never both and never neither; and the
\* turn of the loop for a track bakes it exactly when it has more than 500
\* keyframes, writing those keyframes to the .levels file, and otherwise
\* leaves its fileName and keyframes as they were.
C18_BakedOrEmbedded ==
    /\ [](Corrected /\ ExportDone =>
             \A tr \in Tracks : Baked(tr) # Embedded(tr))
    /\ [][(Corrected /\ exportPos' = exportPos + 1) =>
             LET tr == exportPos
             IN /\ \A other \in Tracks \ {tr} :
                      /\ fileName'[other] = fileName[other]
                      /\ volumeEvents'[other] = volumeEvents[other]
                /\ IF Len(volumeEvents[tr]) > 500
                   THEN /\ levelsFiles'[Append(fileName[tr], ".levels")]
                              = volumeEvents[tr]
                        /\ fileName'[tr] # fileName[tr]
                        /\ volumeEvents'[tr] = <<>>
                   ELSE /\ fileName'[tr] = fileName[tr]
                        /\ volumeEvents'[tr] = volumeEvents[tr]
                        /\ levelsFiles' = levelsFiles
         ]_vars

\* the loop has ended with a track of 501 keyframes baked and a track of
\* exactly 500 keyframes embedded
C18_Witness ==
    /\ Corrected
    /\ ExportDone
    /\ \E tr \in Tracks : Baked(tr) /\ Len(levelsFiles[levelsName(ConfiguredFileName(tr))]) = 501
    /\ \E tr \in Tracks : Embedded(tr) /\ Len(volumeEvents[tr]) = 500

====
